---- MODULE Spec2Model ----
(***************************************************************************)
(* Model of rusuku (src/src/main.rs): the App timer state machine, the key *)
(* dispatch, the poll-render loop of App::run, the MM:SS header text, the  *)
(* grid of render_table and the end of main.                               *)
(*                                                                         *)
(* Time is counted in ticks of 1/TicksPerSec second.  An Instant is the    *)
(* tick at which it was taken, a Duration is a number of ticks, and        *)
(* Duration::as_secs is the truncating division by TicksPerSec.            *)
(***************************************************************************)
EXTENDS Integers, Sequences, FiniteSets, TLC

VARIABLES
    now,               \* the monotonic clock read by Instant::now()
    exit,              \* App.exit
    is_timer_running,  \* App.is_timer_running
    start_time,        \* App.start_time: <<>> is None, <<t>> is Some(t)
    elapsed_time,      \* App.elapsed_time
    pc,                \* position of App::run: "loop", "events", "returned",
                       \* and "exited" when main has returned
    run_result,        \* value returned by App::run: "none" until it returns
    header,            \* text of the timer paragraph of the last frame drawn
    last_event,        \* what the last handle_events call polled
    log,               \* history: the key events handed to handle_key_event
    area,              \* frame.area(): <<width, height>> of the terminal
    drawn,             \* the frame.area() of the last frame drawn, <<0, 0>> before
    since_draw,        \* history: key events dispatched since the last frame
    restored,          \* main: outcome of tui::restore, "none" before it
    main_result        \* value returned by main: "none" until it returns

vars == <<now, exit, is_timer_running, start_time, elapsed_time,
          pc, run_result, header, last_event, log,
          area, drawn, since_draw, restored, main_result>>

\* the terminal and what main does with it after App::run
host == <<area, restored, main_result>>

app == <<exit, is_timer_running, start_time, elapsed_time>>

(***************************************************************************)
(* Bounds of the model.                                                    *)
(***************************************************************************)
TicksPerSec == 2
\* the poll-render loop: last clock tick, largest single clock step
MaxClock == 4
MaxStep == 2
\* key events handed to handle_key_event in one run of the loop
MaxLoopKeys == 2
\* clock ticks that may pass between the two elapsed() reads of render_header
MaxRenderGap == 1
\* direct use of the App: key events dispatched
MaxKeys == 4
\* the scenarios: last clock second, key events dispatched
MaxWaitSecs == 65
MaxScenarioKeys == 3
\* largest paused elapsed time (in ticks) rendered by the formatting check
MaxFmtTicks == 12100
\* the terminal sizes a frame is drawn for
MinWidth == 6
MaxWidth == 58
MinHeight == 7
MaxHeight == 70

\* frames of a running timer: minutes run, ticks before the full minute
MaxMinutes == 20
MaxNear == 3

\* Constraint::Max(18): the largest extent of a grid cell
MaxCell == 18

None == <<>>
Some(t) == <<t>>

\* KeyCode values: the four bound characters and representatives of the rest
KeyCodes == {"q", "i", "p", "c", "x", "Q"}
\* the codes bound to the timer operations
TimerCodes == {"i", "p", "c"}
\* the waits of the scenarios of the specification, in seconds
WaitSecs == {5, 10, 50}

\* crossterm events: a key event of some kind and code, or another event
KeyKinds == {"Press", "Release", "Repeat"}
KeyEvents == [type : {"Key"}, kind : KeyKinds, code : KeyCodes]
OtherEvents == {[type |-> "Resize", kind |-> "none", code |-> "none"]}
NoEvent == [type |-> "NoEvent", kind |-> "none", code |-> "none"]
Events == KeyEvents \cup OtherEvents

(***************************************************************************)
(* std::time                                                               *)
(***************************************************************************)
\* Instant::elapsed(): Instant::now() - self, zero if self is later
InstantElapsed(st, t) == IF t >= st THEN t - st ELSE 0

\* Duration::as_secs(): whole seconds, the fraction is dropped
as_secs(d) == d \div TicksPerSec

(***************************************************************************)
(* App::elapsed, read when the clock shows t                               *)
(***************************************************************************)
elapsed(t) ==
    IF start_time # None /\ is_timer_running
    THEN elapsed_time + InstantElapsed(start_time[1], t)
    ELSE elapsed_time

(***************************************************************************)
(* The timer operations.  Each is the effect on the App fields only.       *)
(***************************************************************************)
\* variant: the guard is missing, a running timer is restarted
start_timer_unguarded ==
    /\ is_timer_running' = TRUE
    /\ start_time' = Some(now)
    /\ UNCHANGED elapsed_time

\* variant: starting clears the accumulated time
start_timer_from_zero ==
    IF is_timer_running
    THEN UNCHANGED <<is_timer_running, start_time, elapsed_time>>
    ELSE /\ is_timer_running' = TRUE
         /\ start_time' = Some(now)
         /\ elapsed_time' = 0

start_timer ==
    IF is_timer_running
    THEN UNCHANGED <<is_timer_running, start_time, elapsed_time>>
    ELSE /\ is_timer_running' = TRUE
         /\ start_time' = Some(now)
         /\ UNCHANGED elapsed_time

start_game == start_timer

\* variant: = instead of +=, the earlier intervals are lost
stop_timer_overwrite ==
    IF ~is_timer_running
    THEN UNCHANGED <<is_timer_running, start_time, elapsed_time>>
    ELSE /\ is_timer_running' = FALSE
         /\ IF start_time # None
            THEN /\ elapsed_time' = InstantElapsed(start_time[1], now)
                 /\ start_time' = None
            ELSE UNCHANGED <<start_time, elapsed_time>>

\* variant: the pause key toggles, a stopped timer is started
stop_timer_toggle ==
    IF ~is_timer_running
    THEN /\ is_timer_running' = TRUE
         /\ start_time' = Some(now)
         /\ UNCHANGED elapsed_time
    ELSE /\ is_timer_running' = FALSE
         /\ IF start_time # None
            THEN /\ elapsed_time' = elapsed_time + InstantElapsed(start_time[1], now)
                 /\ start_time' = None
            ELSE UNCHANGED <<start_time, elapsed_time>>

\* variant: start_time is not cleared
stop_timer_keeps_start ==
    IF ~is_timer_running
    THEN UNCHANGED <<is_timer_running, start_time, elapsed_time>>
    ELSE /\ is_timer_running' = FALSE
         /\ IF start_time # None
            THEN /\ elapsed_time' = elapsed_time + InstantElapsed(start_time[1], now)
                 /\ UNCHANGED start_time
            ELSE UNCHANGED <<start_time, elapsed_time>>

stop_timer ==
    IF ~is_timer_running
    THEN UNCHANGED <<is_timer_running, start_time, elapsed_time>>
    ELSE /\ is_timer_running' = FALSE
         /\ IF start_time # None
            THEN /\ elapsed_time' = elapsed_time + InstantElapsed(start_time[1], now)
                 /\ start_time' = None
            ELSE UNCHANGED <<start_time, elapsed_time>>

\* variant: the new start is backdated by the accumulated time
continue_timer_backdated ==
    IF is_timer_running
    THEN UNCHANGED <<is_timer_running, start_time, elapsed_time>>
    ELSE /\ start_time' = Some(now - elapsed_time)
         /\ is_timer_running' = TRUE
         /\ UNCHANGED elapsed_time

continue_timer ==
    IF is_timer_running
    THEN UNCHANGED <<is_timer_running, start_time, elapsed_time>>
    ELSE /\ start_time' = Some(now)
         /\ is_timer_running' = TRUE
         /\ UNCHANGED elapsed_time

\* variant: quitting pauses the timer
exit_app_stops_timer ==
    /\ exit' = TRUE
    /\ stop_timer

exit_app ==
    /\ exit' = TRUE
    /\ UNCHANGED <<is_timer_running, start_time, elapsed_time>>

(***************************************************************************)
(* App::handle_key_event: the match on key_event.code.  The history gets   *)
(* the code, the clock and whether the timer was running at the dispatch.  *)
(***************************************************************************)
\* variant: the quit arm matches the letter in either case
handle_key_event_any_case(code, cap) ==
    /\ Len(log) < cap
    /\ log' = Append(log, [code |-> code, at |-> now,
                           was_running |-> is_timer_running])
    /\ since_draw' = since_draw + 1
    /\ CASE code \in {"q", "Q"} -> exit_app
         [] code = "i" -> start_game /\ UNCHANGED exit
         [] code = "p" -> stop_timer /\ UNCHANGED exit
         [] code = "c" -> continue_timer /\ UNCHANGED exit
         [] OTHER -> UNCHANGED app

handle_key_event(code, cap) ==
    /\ Len(log) < cap
    /\ log' = Append(log, [code |-> code, at |-> now,
                           was_running |-> is_timer_running])
    /\ since_draw' = since_draw + 1
    /\ CASE code = "q" -> exit_app
         [] code = "i" -> start_game /\ UNCHANGED exit
         [] code = "p" -> stop_timer /\ UNCHANGED exit
         [] code = "c" -> continue_timer /\ UNCHANGED exit
         [] OTHER -> UNCHANGED app

(***************************************************************************)
(* The clock                                                               *)
(***************************************************************************)
TickBy(D, max) ==
    \E d \in D :
        /\ now + d <= max
        /\ now' = now + d
        /\ UNCHANGED <<app, pc, run_result, header, last_event, log>>
        /\ UNCHANGED <<host, drawn, since_draw>>

(***************************************************************************)
(* format!("{:02}:{:02}", minutes, seconds): a text is the sequence of its *)
(* characters.                                                             *)
(***************************************************************************)
DigitChar(d) == <<"0", "1", "2", "3", "4", "5", "6", "7", "8", "9">>[d + 1]

RECURSIVE Decimal(_)
\* the decimal digits of a u64, most significant first
Decimal(n) ==
    IF n < 10 THEN <<DigitChar(n)>>
    ELSE Append(Decimal(n \div 10), DigitChar(n % 10))

\* variant: {} instead of {:02}, no padding
Fmt02_unpadded(n) == Decimal(n)

\* {:02}: the decimal digits, zero-padded on the left to a width of 2
Fmt02(n) ==
    LET s == Decimal(n) IN IF Len(s) < 2 THEN <<"0">> \o s ELSE s

format_mm_ss(minutes, seconds) == Fmt02(minutes) \o <<":">> \o Fmt02(seconds)

(***************************************************************************)
(* render_header: elapsed() is read twice, once for the minutes and once   *)
(* for the seconds; gap is the number of ticks between the two reads.      *)
(***************************************************************************)
header_text(gap) ==
    LET minutes == as_secs(elapsed(now)) \div 60
        seconds == as_secs(elapsed(now + gap)) % 60
    IN  format_mm_ss(minutes, seconds)

(***************************************************************************)
(* Layout.  A Rect is [x, y, width, height].  App::run gives render_table  *)
(* the lower part of the Percentage(15) / Percentage(85) split of the      *)
(* frame; the solver's positions are rounded to whole cells.               *)
(***************************************************************************)
body_band(a) ==
    LET header_height == (15 * a[2] + 50) \div 100
    IN  [x |-> 0, y |-> header_height,
         width |-> a[1], height |-> a[2] - header_height]

\* Three Max(18) segments of a side of length len that starts at start, after
\* lead unused units: 18 each when they fit, else an even share of the side.
three_segments(start, len, lead) ==
    IF len >= 3 * MaxCell
    THEN [i \in 1..3 |->
            [start |-> start + lead + (i - 1) * MaxCell, size |-> MaxCell]]
    ELSE LET at(i) == (2 * i * len + 3) \div 6
         IN  [i \in 1..3 |-> [start |-> start + at(i - 1),
                              size |-> at(i) - at(i - 1)]]

\* .flex(Flex::Center): the unused length is halved, the odd unit leads
split_center(start, len) ==
    three_segments(start, len,
                   IF len >= 3 * MaxCell THEN (len - 3 * MaxCell + 1) \div 2 ELSE 0)

\* no .flex(..): Layout's default, the segments are packed at the start
split_default(start, len) == three_segments(start, len, 0)

\* the Rect of the cell in column vi and row hi of the grid drawn in band
cell_rect(band, vi, hi) ==
    LET vl == split_center(band.x, band.width)[vi + 1]
        hl == split_default(band.y, band.height)[hi + 1]
    IN  [x |-> vl.start, y |-> hl.start, width |-> vl.size, height |-> hl.size]

(***************************************************************************)
(* render_table: the border glyphs and the borders of each cell.  A glyph  *)
(* is named as in ratatui::symbols::line.                                  *)
(***************************************************************************)
THICK ==
    [top_left |-> "THICK_TOP_LEFT", top_right |-> "THICK_TOP_RIGHT",
     bottom_left |-> "THICK_BOTTOM_LEFT", bottom_right |-> "THICK_BOTTOM_RIGHT",
     vertical_left |-> "THICK_VERTICAL", vertical_right |-> "THICK_VERTICAL",
     horizontal_top |-> "THICK_HORIZONTAL", horizontal_bottom |-> "THICK_HORIZONTAL"]

\* variant: the bottom row has the junctions of the top row
border_set_bottom_as_top(vi, hi) ==
    CASE vi = 0 /\ hi = 0 ->
            [THICK EXCEPT !.bottom_left = "THICK_VERTICAL_RIGHT"]
      [] vi = 1 /\ hi = 0 ->
            [THICK EXCEPT !.top_right = "THICK_HORIZONTAL_DOWN",
                          !.top_left = "THICK_HORIZONTAL_DOWN",
                          !.bottom_left = "THICK_CROSS",
                          !.bottom_right = "THICK_CROSS"]
      [] vi = 2 /\ hi = 0 ->
            [THICK EXCEPT !.bottom_right = "THICK_VERTICAL_LEFT"]
      [] vi = 0 /\ hi = 1 ->
            [THICK EXCEPT !.bottom_left = "THICK_VERTICAL_RIGHT"]
      [] vi = 1 /\ hi = 1 ->
            [THICK EXCEPT !.bottom_left = "THICK_CROSS",
                          !.bottom_right = "THICK_CROSS"]
      [] vi = 2 /\ hi = 1 ->
            [THICK EXCEPT !.bottom_right = "THICK_VERTICAL_LEFT"]
      [] vi = 0 /\ hi = 2 -> THICK
      [] vi = 1 /\ hi = 2 ->
            [THICK EXCEPT !.bottom_left = "THICK_HORIZONTAL_DOWN",
                          !.bottom_right = "THICK_HORIZONTAL_DOWN"]
      [] vi = 2 /\ hi = 2 -> THICK
      [] OTHER -> THICK

\* the match (vi, hi) that gives border_set
border_set(vi, hi) ==
    CASE vi = 0 /\ hi = 0 ->
            [THICK EXCEPT !.bottom_left = "THICK_VERTICAL_RIGHT"]
      [] vi = 1 /\ hi = 0 ->
            [THICK EXCEPT !.top_right = "THICK_HORIZONTAL_DOWN",
                          !.top_left = "THICK_HORIZONTAL_DOWN",
                          !.bottom_left = "THICK_CROSS",
                          !.bottom_right = "THICK_CROSS"]
      [] vi = 2 /\ hi = 0 ->
            [THICK EXCEPT !.bottom_right = "THICK_VERTICAL_LEFT"]
      [] vi = 0 /\ hi = 1 ->
            [THICK EXCEPT !.bottom_left = "THICK_VERTICAL_RIGHT"]
      [] vi = 1 /\ hi = 1 ->
            [THICK EXCEPT !.bottom_left = "THICK_CROSS",
                          !.bottom_right = "THICK_CROSS"]
      [] vi = 2 /\ hi = 1 ->
            [THICK EXCEPT !.bottom_right = "THICK_VERTICAL_LEFT"]
      [] vi = 0 /\ hi = 2 -> THICK
      [] vi = 1 /\ hi = 2 ->
            [THICK EXCEPT !.bottom_left = "THICK_HORIZONTAL_UP",
                          !.bottom_right = "THICK_HORIZONTAL_UP"]
      [] vi = 2 /\ hi = 2 -> THICK
      [] OTHER -> THICK

ALL == {"LEFT", "TOP", "RIGHT", "BOTTOM"}

\* variant: every cell draws all four of its borders
borders_all(vi, hi) == ALL

\* the match (vi, hi) that gives borders
borders(vi, hi) ==
    CASE vi = 0 /\ hi = 0 -> {"LEFT", "TOP", "BOTTOM"}
      [] vi = 1 /\ hi = 0 -> ALL
      [] vi = 2 /\ hi = 0 -> {"TOP", "RIGHT", "BOTTOM"}
      [] vi = 0 /\ hi = 1 -> {"LEFT", "BOTTOM"}
      [] vi = 1 /\ hi = 1 -> {"RIGHT", "LEFT", "BOTTOM"}
      [] vi = 2 /\ hi = 1 -> {"BOTTOM", "RIGHT"}
      [] vi = 0 /\ hi = 2 -> {"LEFT", "BOTTOM"}
      [] vi = 1 /\ hi = 2 -> {"LEFT", "BOTTOM", "RIGHT"}
      [] vi = 2 /\ hi = 2 -> {"BOTTOM", "RIGHT"}
      [] OTHER -> ALL

(***************************************************************************)
(* The frame buffer: the glyph at each point <<x, y>> that was painted.    *)
(* Rendering is a sequence of writes, each of one glyph to a set of        *)
(* points; a point shows the glyph of the last write to it.                *)
(***************************************************************************)
set_symbol(writes, points, glyph) ==
    Append(writes, [points |-> points, glyph |-> glyph])

buffer_of(writes) ==
    LET n == Len(writes)
        last(p) == CHOOSE i \in 1..n :
                      /\ p \in writes[i].points
                      /\ \A j \in (i + 1)..n : p \notin writes[j].points
    IN  [p \in UNION {writes[i].points : i \in 1..n} |-> writes[last(p)].glyph]

\* Block::default().borders(b).border_set(s).render(r, buf): the sides left,
\* top, right, bottom, then the corners whose two sides are both drawn
block_render(writes, r, b, s) ==
    IF r.width = 0 \/ r.height = 0 THEN writes
    ELSE
    LET left == r.x
        right == r.x + r.width - 1
        top == r.y
        bottom == r.y + r.height - 1
        b1 == IF "LEFT" \in b
              THEN set_symbol(writes, {<<left, y>> : y \in top..bottom}, s.vertical_left)
              ELSE writes
        b2 == IF "TOP" \in b
              THEN set_symbol(b1, {<<x, top>> : x \in left..right}, s.horizontal_top)
              ELSE b1
        b3 == IF "RIGHT" \in b
              THEN set_symbol(b2, {<<right, y>> : y \in top..bottom}, s.vertical_right)
              ELSE b2
        b4 == IF "BOTTOM" \in b
              THEN set_symbol(b3, {<<x, bottom>> : x \in left..right}, s.horizontal_bottom)
              ELSE b3
        c1 == IF {"RIGHT", "BOTTOM"} \subseteq b
              THEN set_symbol(b4, {<<right, bottom>>}, s.bottom_right) ELSE b4
        c2 == IF {"RIGHT", "TOP"} \subseteq b
              THEN set_symbol(c1, {<<right, top>>}, s.top_right) ELSE c1
        c3 == IF {"LEFT", "BOTTOM"} \subseteq b
              THEN set_symbol(c2, {<<left, bottom>>}, s.bottom_left) ELSE c2
        c4 == IF {"LEFT", "TOP"} \subseteq b
              THEN set_symbol(c3, {<<left, top>>}, s.top_left) ELSE c3
    IN  c4

RECURSIVE stamp_cells(_, _, _)
\* the two loops of render_table from the k-th cell on: vi outer, hi inner
stamp_cells(writes, k, band) ==
    IF k = 9 THEN writes
    ELSE LET vi == k \div 3
             hi == k % 3
         IN  stamp_cells(block_render(writes, cell_rect(band, vi, hi),
                                      borders(vi, hi), border_set(vi, hi)),
                         k + 1, band)

render_table(band) == buffer_of(stamp_cells(<<>>, 0, band))

\* the glyphs render_table put into the last frame drawn
buffer == render_table(body_band(drawn))

(***************************************************************************)
(* App::run: one pass of the loop is the exit check, terminal.draw and     *)
(* handle_events.                                                          *)
(***************************************************************************)
\* if self.exit { break; }  ...  Ok(())
Break ==
    /\ pc = "loop"
    /\ exit
    /\ pc' = "returned"
    /\ run_result' = "Ok"
    /\ UNCHANGED <<now, app, header, last_event, log>>
    /\ UNCHANGED <<host, drawn, since_draw>>

\* variant: rendering banks the running time, as its &mut App allows
DrawWithin_banks(max) ==
    /\ pc = "loop"
    /\ ~exit
    /\ \E gap \in 0..MaxRenderGap :
          /\ gap = 0 \/ now + gap <= max
          /\ header' = header_text(gap)
          /\ now' = now + gap
    /\ drawn' = area
    /\ since_draw' = 0
    /\ pc' = "events"
    /\ stop_timer
    /\ UNCHANGED <<exit, run_result, last_event, log, host>>

\* variant: the exit check comes after the frame, not before it
DrawWithin_before_check(max) ==
    /\ pc = "loop"
    /\ \E gap \in 0..MaxRenderGap :
          /\ gap = 0 \/ now + gap <= max
          /\ header' = header_text(gap)
          /\ now' = now + gap
    /\ drawn' = area
    /\ since_draw' = 0
    /\ pc' = "events"
    /\ UNCHANGED <<app, run_result, last_event, log, host>>

\* terminal.draw(..) succeeds: the frame shows the header text and the grid;
\* the clock does not pass max between the two reads of render_header
DrawWithin(max) ==
    /\ pc = "loop"
    /\ ~exit
    /\ \E gap \in 0..MaxRenderGap :
          /\ gap = 0 \/ now + gap <= max
          /\ header' = header_text(gap)
          /\ now' = now + gap
    /\ drawn' = area
    /\ since_draw' = 0
    /\ pc' = "events"
    /\ UNCHANGED <<app, run_result, last_event, log, host>>

Draw == DrawWithin(MaxClock)

\* terminal.draw(..)? returns the I/O error
DrawFails ==
    /\ pc = "loop"
    /\ ~exit
    /\ pc' = "returned"
    /\ run_result' = "Err"
    /\ UNCHANGED <<now, app, header, last_event, log>>
    /\ UNCHANGED <<host, drawn, since_draw>>

(***************************************************************************)
(* App::handle_events                                                      *)
(***************************************************************************)
\* variant: the guard on the kind is missing
IsKeyPress_any_kind(ev) == ev.type = "Key"

\* the match guard: Event::Key(key_event) if key_event.kind == Press
IsKeyPress(ev) == ev.type = "Key" /\ ev.kind = "Press"

\* event::poll(10 ms) returns Ok(false)
PollTimeout ==
    /\ pc = "events"
    /\ last_event' = NoEvent
    /\ pc' = "loop"
    /\ UNCHANGED <<now, app, run_result, header, log>>
    /\ UNCHANGED <<host, drawn, since_draw>>

\* event::poll(..)? or event::read()? returns the I/O error
PollOrReadFails ==
    /\ pc = "events"
    /\ pc' = "returned"
    /\ run_result' = "Err"
    /\ UNCHANGED <<now, app, header, last_event, log>>
    /\ UNCHANGED <<host, drawn, since_draw>>

\* variant: while poll(..) instead of if poll(..), events are drained
ReadEvent_drains ==
    /\ pc = "events"
    /\ \E ev \in Events :
          /\ last_event' = ev
          /\ IF IsKeyPress(ev)
             THEN handle_key_event(ev.code, MaxLoopKeys)
             ELSE UNCHANGED <<app, log, since_draw>>
    /\ pc' \in {"events", "loop"}
    /\ UNCHANGED <<now, run_result, header>>
    /\ UNCHANGED <<host, drawn>>

\* event::poll returns Ok(true) and event::read returns the event
ReadEvent ==
    /\ pc = "events"
    /\ \E ev \in Events :
          /\ last_event' = ev
          /\ IF IsKeyPress(ev)
             THEN handle_key_event(ev.code, MaxLoopKeys)
             ELSE UNCHANGED <<app, log, since_draw>>
    /\ pc' = "loop"
    /\ UNCHANGED <<now, run_result, header>>
    /\ UNCHANGED <<host, drawn>>

HandleEvents == PollTimeout \/ PollOrReadFails \/ ReadEvent

Tick == TickBy(1..MaxStep, MaxClock)

(***************************************************************************)
(* Spec: the program, App::default().run(terminal)                         *)
(***************************************************************************)
Init ==
    /\ now = 0
    /\ exit = FALSE
    /\ is_timer_running = FALSE
    /\ start_time = None
    /\ elapsed_time = 0
    /\ pc = "loop"
    /\ run_result = "none"
    /\ header = <<>>
    /\ last_event = NoEvent
    /\ log = <<>>
    /\ area = <<MinWidth, MinHeight>>
    /\ drawn = <<0, 0>>
    /\ since_draw = 0
    /\ restored = "none"
    /\ main_result = "none"

Next == Tick \/ Draw \/ DrawFails \/ Break \/ HandleEvents

Spec == Init /\ [][Next]_vars

(***************************************************************************)
(* MainSpec: main, that is the loop and then tui::restore()? and the       *)
(* return of app_result.                                                   *)
(***************************************************************************)
\* tui::restore()?; app_result
Restore ==
    /\ pc = "returned"
    /\ \E ok \in BOOLEAN :
          /\ restored' = (IF ok THEN "Ok" ELSE "Err")
          /\ main_result' = (IF ok THEN run_result ELSE "RestoreErr")
    /\ pc' = "exited"
    /\ UNCHANGED <<now, app, run_result, header, last_event, log>>
    /\ UNCHANGED <<area, drawn, since_draw>>

MainNext == Next \/ Restore

MainSpec == Init /\ [][MainNext]_vars

(***************************************************************************)
(* TimerSpec: the App driven directly through handle_key_event, as the     *)
(* unit tests do, with any key code at any time.                           *)
(***************************************************************************)
Press ==
    /\ \E code \in KeyCodes : handle_key_event(code, MaxKeys)
    /\ UNCHANGED <<now, pc, run_result, header, last_event>>
    /\ UNCHANGED <<host, drawn>>

TimerNext == Tick \/ Press

TimerSpec == Init /\ [][TimerNext]_vars

(***************************************************************************)
(* ScenarioSpec: the timer operations separated by waits of 5, 10 and 50   *)
(* seconds.                                                                *)
(***************************************************************************)
Wait == TickBy({s * TicksPerSec : s \in WaitSecs}, MaxWaitSecs * TicksPerSec)

Operate ==
    /\ \E code \in TimerCodes : handle_key_event(code, MaxScenarioKeys)
    /\ UNCHANGED <<now, pc, run_result, header, last_event>>
    /\ UNCHANGED <<host, drawn>>

ScenarioNext == Wait \/ Operate

ScenarioSpec == Init /\ [][ScenarioNext]_vars

(***************************************************************************)
(* FmtSpec: a frame is drawn of an App that was started at 0 and paused    *)
(* after any number of ticks up to MaxFmtTicks.                            *)
(***************************************************************************)
FmtInit ==
    /\ now \in 0..MaxFmtTicks
    /\ exit = FALSE
    /\ is_timer_running = FALSE
    /\ start_time = None
    /\ elapsed_time = now
    /\ pc = "loop"
    /\ run_result = "none"
    /\ header = <<>>
    /\ last_event = NoEvent
    /\ log = <<[code |-> "i", at |-> 0, was_running |-> FALSE],
               [code |-> "p", at |-> now, was_running |-> TRUE]>>
    /\ area = <<MinWidth, MinHeight>>
    /\ drawn = <<0, 0>>
    /\ since_draw = 2
    /\ restored = "none"
    /\ main_result = "none"

FmtNext == Draw

FmtSpec == FmtInit /\ [][FmtNext]_vars

(***************************************************************************)
(* GridSpec: the first frame of a fresh App on a terminal of any size from *)
(* MinWidth x MinHeight to MaxWidth x MaxHeight.                           *)
(***************************************************************************)
GridInit ==
    /\ now = 0
    /\ exit = FALSE
    /\ is_timer_running = FALSE
    /\ start_time = None
    /\ elapsed_time = 0
    /\ pc = "loop"
    /\ run_result = "none"
    /\ header = <<>>
    /\ last_event = NoEvent
    /\ log = <<>>
    /\ area \in (MinWidth..MaxWidth) \X (MinHeight..MaxHeight)
    /\ drawn = <<0, 0>>
    /\ since_draw = 0
    /\ restored = "none"
    /\ main_result = "none"

GridNext == Draw

GridSpec == GridInit /\ [][GridNext]_vars

(***************************************************************************)
(* RenderSpec: a frame is drawn of an App that was started at 0 and is     *)
(* running, up to MaxNear ticks before a full minute.                      *)
(***************************************************************************)
RenderInit ==
    /\ now \in {m * 60 * TicksPerSec - d : m \in 1..MaxMinutes, d \in 0..MaxNear}
    /\ exit = FALSE
    /\ is_timer_running = TRUE
    /\ start_time = Some(0)
    /\ elapsed_time = 0
    /\ pc = "loop"
    /\ run_result = "none"
    /\ header = <<>>
    /\ last_event = [type |-> "Key", kind |-> "Press", code |-> "i"]
    /\ log = <<[code |-> "i", at |-> 0, was_running |-> FALSE]>>
    /\ area = <<MinWidth, MinHeight>>
    /\ drawn = <<0, 0>>
    /\ since_draw = 1
    /\ restored = "none"
    /\ main_result = "none"

RenderNext == DrawWithin(MaxMinutes * 60 * TicksPerSec + MaxRenderGap)

RenderSpec == RenderInit /\ [][RenderNext]_vars

TypeOK ==
    /\ now \in Nat
    /\ exit \in BOOLEAN
    /\ is_timer_running \in BOOLEAN
    /\ start_time = None \/ (Len(start_time) = 1 /\ start_time[1] \in Nat)
    /\ elapsed_time \in Nat
    /\ pc \in {"loop", "events", "returned", "exited"}
    /\ run_result \in {"none", "Ok", "Err"}
    /\ last_event \in Events \cup {NoEvent}

(***************************************************************************)
(* Properties                                                              *)
(***************************************************************************)
LastKey == log[Len(log)]

\* the step hands a key event with a code of the set to handle_key_event
Dispatches(codes) ==
    /\ Len(log') = Len(log) + 1
    /\ log'[Len(log')].code \in codes

RECURSIVE RunIntervals(_, _, _)
\* Reference value of the running time, from the history alone: l is the rest
\* of the history, open is None or Some(start of the interval in progress),
\* t is the clock.  A start or resume opens an interval when none is open, a
\* pause closes the open one, every other event is without effect.
RunIntervals(l, open, t) ==
    IF l = <<>>
    THEN IF open = None THEN 0 ELSE t - open[1]
    ELSE LET e == Head(l) IN
         IF e.code \in {"i", "c"} /\ open = None
         THEN RunIntervals(Tail(l), Some(e.at), t)
         ELSE IF e.code = "p" /\ open # None
              THEN (e.at - open[1]) + RunIntervals(Tail(l), None, t)
              ELSE RunIntervals(Tail(l), open, t)

\* C1: after any sequence of start, pause and resume operations and clock
\* advances, elapsed() is the sum of the completed running intervals plus the
\* interval in progress if the timer is running.
C1_ElapsedIsSumOfIntervals == elapsed(now) = RunIntervals(log, None, now)

\* a resumed timer is running: one interval is completed, time passed while
\* paused, and the interval in progress has a positive length
C1_Witness ==
    /\ is_timer_running
    /\ elapsed_time > 0
    /\ elapsed(now) > elapsed_time
    /\ Len(log) >= 3
    /\ elapsed(now) < now - log[1].at

\* C2: start or resume on a running timer leaves start_time, elapsed_time and
\* is_timer_running as they are, and elapsed() at that instant is the same
\* before and after.
C2_RedundantStartIsNoOp ==
    [][(Dispatches({"i", "c"}) /\ is_timer_running)
         => /\ start_time' = start_time
            /\ elapsed_time' = elapsed_time
            /\ is_timer_running' = is_timer_running
            /\ elapsed(now)' = elapsed(now)]_vars

\* a start was dispatched to a timer that had been running for some time
C2_Witness ==
    /\ Len(log) >= 2
    /\ LastKey.code = "i"
    /\ LastKey.was_running
    /\ LastKey.at = now
    /\ start_time # None
    /\ start_time[1] < now

\* C3: pause on a timer that is not running changes no field of the App and
\* leaves elapsed() unchanged.
C3_RedundantPauseIsNoOp ==
    [][(Dispatches({"p"}) /\ ~is_timer_running)
         => /\ UNCHANGED app
            /\ elapsed(now)' = elapsed(now)]_vars

\* a pause was dispatched to a timer that had already been paused
C3_Witness ==
    /\ Len(log) >= 3
    /\ LastKey.code = "p"
    /\ ~LastKey.was_running
    /\ elapsed_time > 0
    /\ ~is_timer_running

\* C4: start_time is present exactly when is_timer_running, and before any
\* key event the App is not running, has no start_time and no elapsed time.
C4_StartTimeIffRunning ==
    /\ (start_time # None) <=> is_timer_running
    /\ log = <<>> =>
          /\ ~exit
          /\ ~is_timer_running
          /\ start_time = None
          /\ elapsed_time = 0

\* the timer has been started, paused, and is stopped with no start_time
C4_Witness ==
    /\ Len(log) >= 2
    /\ LastKey.code = "p"
    /\ LastKey.was_running
    /\ ~is_timer_running
    /\ start_time = None

\* C5: elapsed() never decreases, whatever key is dispatched and however the
\* clock advances.
C5_ElapsedMonotonic == [][elapsed(now)' >= elapsed(now)]_vars

\* time has been accumulated, then the timer was started again after a pause
C5_Witness ==
    /\ Len(log) >= 3
    /\ LastKey.code \in {"i", "c"}
    /\ ~LastKey.was_running
    /\ elapsed_time > 0
    /\ elapsed(now) >= elapsed_time

\* the scenario: start, 10 s, pause, 50 s, resume, 5 s
Scenario_10_50_5 ==
    /\ Len(log) = 3
    /\ log[1].code = "i" /\ log[2].code = "p" /\ log[3].code = "c"
    /\ log[2].at - log[1].at = 10 * TicksPerSec
    /\ log[3].at - log[2].at = 50 * TicksPerSec
    /\ now - log[3].at = 5 * TicksPerSec

\* C6: while the timer is not running elapsed() stays constant however far
\* the clock advances; start, 10 s, pause, 50 s, resume, 5 s gives 15 s.
C6_PausedTimeExcluded ==
    /\ [][(~is_timer_running /\ now' > now) => elapsed(now)' = elapsed(now)]_vars
    /\ [](Scenario_10_50_5 =>
            /\ elapsed(now) = 15 * TicksPerSec
            /\ as_secs(elapsed(now)) = 15)

C6_Witness == Scenario_10_50_5 /\ is_timer_running

\* C7: the key 'q' sets exit and leaves is_timer_running, start_time and
\* elapsed_time unchanged.
C7_QuitOnlySetsExit ==
    [][Dispatches({"q"})
         => /\ exit' = TRUE
            /\ UNCHANGED <<is_timer_running, start_time, elapsed_time>>]_vars

\* 'q' was dispatched to a running timer, which is still running
C7_Witness ==
    /\ Len(log) >= 2
    /\ LastKey.code = "q"
    /\ LastKey.was_running
    /\ exit
    /\ is_timer_running
    /\ start_time # None

\* C8: a key other than 'q', 'i', 'p', 'c' changes no field of the App.
C8_OtherKeysIgnored ==
    [][Dispatches(KeyCodes \ {"q", "i", "p", "c"}) => UNCHANGED app]_vars

\* an unbound key was dispatched to a running timer that had not quit
C8_Witness ==
    /\ Len(log) >= 2
    /\ LastKey.code \in {"x", "Q"}
    /\ LastKey.was_running
    /\ is_timer_running
    /\ ~exit

\* C9: a handle_events call whose event is not a key press (a release, a
\* repeat, another event, or none) hands nothing to handle_key_event and
\* changes no field of the App.
C9_OnlyPressDispatched ==
    [][(/\ pc = "events"
        /\ pc' = "loop"
        /\ ~(last_event'.type = "Key" /\ last_event'.kind = "Press"))
         => /\ log' = log
            /\ UNCHANGED app]_vars

\* the release of 'q' was read and the loop goes on without exit
C9_Witness ==
    /\ pc = "loop"
    /\ last_event.type = "Key"
    /\ last_event.kind \in {"Release", "Repeat"}
    /\ last_event.code = "q"
    /\ ~exit
    /\ log = <<>>

IsDigitChar(ch) == ch \in {"0", "1", "2", "3", "4", "5", "6", "7", "8", "9"}

CharValue(ch) ==
    CASE ch = "0" -> 0 [] ch = "1" -> 1 [] ch = "2" -> 2 [] ch = "3" -> 3
      [] ch = "4" -> 4 [] ch = "5" -> 5 [] ch = "6" -> 6 [] ch = "7" -> 7
      [] ch = "8" -> 8 [] ch = "9" -> 9

RECURSIVE NumberOf(_)
\* the number a text of decimal digits denotes
NumberOf(t) ==
    IF t = <<>> THEN 0
    ELSE NumberOf(SubSeq(t, 1, Len(t) - 1)) * 10 + CharValue(t[Len(t)])

\* the text is minutes ':' seconds of s whole seconds: the minutes are s div 60
\* in at least 2 digits and no more than needed, the seconds s mod 60 in 2
IsMinutesSeconds(text, s) ==
    /\ Len(text) >= 5
    /\ text[Len(text) - 2] = ":"
    /\ LET mm == SubSeq(text, 1, Len(text) - 3)
           ss == SubSeq(text, Len(text) - 1, Len(text))
       IN  /\ \A i \in 1..Len(mm) : IsDigitChar(mm[i])
           /\ \A i \in 1..Len(ss) : IsDigitChar(ss[i])
           /\ NumberOf(mm) = s \div 60
           /\ NumberOf(ss) = s % 60
           /\ Len(mm) = 2 \/ mm[1] # "0"

\* C10: the header text of a paused App with s whole seconds elapsed is
\* s div 60 in at least 2 digits, ':', s mod 60 in 2 digits, without hour
\* rollover or clamping; 0 s gives "00:00" and 125 s gives "02:05".
C10_HeaderIsMinutesSeconds ==
    header # <<>> =>
        LET s == elapsed_time \div TicksPerSec IN
        /\ IsMinutesSeconds(header, s)
        /\ s = 0 => header = <<"0", "0", ":", "0", "0">>
        /\ s = 125 => header = <<"0", "2", ":", "0", "5">>

\* the frame of an App paused after 125 s
C10_Witness ==
    /\ elapsed_time \div TicksPerSec = 125
    /\ header = <<"0", "2", ":", "0", "5">>

(***************************************************************************)
(* Properties of the grid                                                  *)
(***************************************************************************)
FrameDrawn == drawn # <<0, 0>>

\* the Rect of a cell in the last frame drawn
DrawnCell(vi, hi) == cell_rect(body_band(drawn), vi, hi)

\* the points of a side of a Rect, its two end points left out
SideInterior(r, side) ==
    CASE side = "LEFT" ->
            {<<r.x, y>> : y \in (r.y + 1)..(r.y + r.height - 2)}
      [] side = "RIGHT" ->
            {<<r.x + r.width - 1, y>> : y \in (r.y + 1)..(r.y + r.height - 2)}
      [] side = "TOP" ->
            {<<x, r.y>> : x \in (r.x + 1)..(r.x + r.width - 2)}
      [] side = "BOTTOM" ->
            {<<x, r.y + r.height - 1>> : x \in (r.x + 1)..(r.x + r.width - 2)}

\* a side is ruled in the frame: each of its interior points shows the glyph
SideRuled(buf, r, side, glyph) ==
    \A p \in SideInterior(r, side) : p \in DOMAIN buf /\ buf[p] = glyph

\* a side is blank in the frame: none of its interior points is painted
SideBlank(buf, r, side) ==
    \A p \in SideInterior(r, side) : p \notin DOMAIN buf

\* between two adjacent cells, exactly one of the facing sides is drawn, and
\* the frame shows that one ruled and the other blank
OneOfFacingSides(buf, va, ha, sa, vb, hb, sb, glyph) ==
    LET a == sa \in borders(va, ha)
        b == sb \in borders(vb, hb)
        ra == DrawnCell(va, ha)
        rb == DrawnCell(vb, hb)
    IN  /\ a # b
        /\ a => SideRuled(buf, ra, sa, glyph) /\ SideBlank(buf, rb, sb)
        /\ b => SideRuled(buf, rb, sb, glyph) /\ SideBlank(buf, ra, sa)

\* a perimeter side is drawn by the cell that owns it and shows ruled
PerimeterSide(buf, vi, hi, side, glyph) ==
    /\ side \in borders(vi, hi)
    /\ SideRuled(buf, DrawnCell(vi, hi), side, glyph)

\* C11: of two horizontally or vertically adjacent cells exactly one draws
\* the edge they share, and every perimeter edge of the grid is drawn by the
\* cell that owns it.
C11_SharedEdgeDrawnOnce ==
    FrameDrawn =>
        LET buf == buffer IN
        /\ \A vi \in 0..1, hi \in 0..2 :
              OneOfFacingSides(buf, vi, hi, "RIGHT", vi + 1, hi, "LEFT",
                               "THICK_VERTICAL")
        /\ \A vi \in 0..2, hi \in 0..1 :
              OneOfFacingSides(buf, vi, hi, "BOTTOM", vi, hi + 1, "TOP",
                               "THICK_HORIZONTAL")
        /\ \A vi \in 0..2 :
              /\ PerimeterSide(buf, vi, 0, "TOP", "THICK_HORIZONTAL")
              /\ PerimeterSide(buf, vi, 2, "BOTTOM", "THICK_HORIZONTAL")
        /\ \A hi \in 0..2 :
              /\ PerimeterSide(buf, 0, hi, "LEFT", "THICK_VERTICAL")
              /\ PerimeterSide(buf, 2, hi, "RIGHT", "THICK_VERTICAL")

\* a frame whose nine cells have the full extent, so every side has an interior
C11_Witness ==
    /\ FrameDrawn
    /\ \A vi \in 0..2, hi \in 0..2 :
          /\ DrawnCell(vi, hi).width = MaxCell
          /\ DrawnCell(vi, hi).height = MaxCell
    /\ Cardinality(DOMAIN buffer) > 8 * MaxCell

\* The ruled lines of the grid: x of the i-th vertical line and y of the j-th
\* horizontal line, i and j in 0..3, read off the cells of the frame.
LineX(i) ==
    CASE i = 0 -> DrawnCell(0, 0).x
      [] i = 1 -> DrawnCell(1, 0).x
      [] i = 2 -> DrawnCell(1, 0).x + DrawnCell(1, 0).width - 1
      [] i = 3 -> DrawnCell(2, 0).x + DrawnCell(2, 0).width - 1

LineY(j) ==
    CASE j = 0 -> DrawnCell(0, 0).y
      [] j = 1 -> DrawnCell(0, 0).y + DrawnCell(0, 0).height - 1
      [] j = 2 -> DrawnCell(0, 1).y + DrawnCell(0, 1).height - 1
      [] j = 3 -> DrawnCell(0, 2).y + DrawnCell(0, 2).height - 1

\* the junction a ruled 3 x 3 grid has where line i crosses line j
JunctionOf(i, j) ==
    CASE i \in {1, 2} /\ j \in {1, 2} -> "THICK_CROSS"
      [] i = 0 /\ j = 0 -> "THICK_TOP_LEFT"
      [] i = 3 /\ j = 0 -> "THICK_TOP_RIGHT"
      [] i = 0 /\ j = 3 -> "THICK_BOTTOM_LEFT"
      [] i = 3 /\ j = 3 -> "THICK_BOTTOM_RIGHT"
      [] i \in {1, 2} /\ j = 0 -> "THICK_HORIZONTAL_DOWN"
      [] i \in {1, 2} /\ j = 3 -> "THICK_HORIZONTAL_UP"
      [] i = 0 /\ j \in {1, 2} -> "THICK_VERTICAL_RIGHT"
      [] i = 3 /\ j \in {1, 2} -> "THICK_VERTICAL_LEFT"

\* C12: in the frame the four points shared by 4 cells show the cross, the
\* four outer corners the L-corners, and the points on the outer edge shared
\* by 2 cells the T junction that points into the grid.
C12_JunctionGlyphs ==
    FrameDrawn =>
        LET buf == buffer IN
        \A i \in 0..3, j \in 0..3 :
            /\ <<LineX(i), LineY(j)>> \in DOMAIN buf
            /\ buf[<<LineX(i), LineY(j)>>] = JunctionOf(i, j)

\* a frame of full-size cells shows the cross where the four middle cells meet
C12_Witness ==
    /\ FrameDrawn
    /\ DrawnCell(1, 1).width = MaxCell
    /\ DrawnCell(1, 1).height = MaxCell
    /\ buffer[<<LineX(1), LineY(1)>>] = "THICK_CROSS"
    /\ buffer[<<LineX(3), LineY(3)>>] = "THICK_BOTTOM_RIGHT"

\* The corners of a cell: the border_set field, the two sides that meet there,
\* and the lines of the grid that cross there.
Corners == {"top_left", "top_right", "bottom_left", "bottom_right"}

CornerSides(corner) ==
    CASE corner = "top_left" -> {"LEFT", "TOP"}
      [] corner = "top_right" -> {"RIGHT", "TOP"}
      [] corner = "bottom_left" -> {"LEFT", "BOTTOM"}
      [] corner = "bottom_right" -> {"RIGHT", "BOTTOM"}

CornerPoint(vi, hi, corner) ==
    <<IF corner \in {"top_left", "bottom_left"} THEN vi ELSE vi + 1,
      IF corner \in {"top_left", "top_right"} THEN hi ELSE hi + 1>>

CornerGlyph(vi, hi, corner) ==
    CASE corner = "top_left" -> border_set(vi, hi).top_left
      [] corner = "top_right" -> border_set(vi, hi).top_right
      [] corner = "bottom_left" -> border_set(vi, hi).bottom_left
      [] corner = "bottom_right" -> border_set(vi, hi).bottom_right

GridCells == (0..2) \X (0..2)

Adjacent(a, b) ==
    \/ a[2] = b[2] /\ (a[1] - b[1] = 1 \/ b[1] - a[1] = 1)
    \/ a[1] = b[1] /\ (a[2] - b[2] = 1 \/ b[2] - a[2] = 1)

\* the cell paints its corner glyph: both sides that meet there are drawn
PaintsCorner(c, corner) == CornerSides(corner) \subseteq borders(c[1], c[2])

\* the corner points of the grid that two adjacent cells share
SharedPoints ==
    {pt \in (0..3) \X (0..3) :
        \E a, b \in GridCells, ka, kb \in Corners :
            /\ Adjacent(a, b)
            /\ CornerPoint(a[1], a[2], ka) = pt
            /\ CornerPoint(b[1], b[2], kb) = pt}

C14_StartIsResume ==
    [][Dispatches({"i", "c"})
         => /\ is_timer_running' = TRUE
            /\ start_time' = (IF is_timer_running THEN start_time ELSE Some(now))
            /\ elapsed_time' = elapsed_time
            /\ exit' = exit]_vars

\* 'i' was dispatched to a paused timer, which runs on from what it had
C14_Witness ==
    /\ Len(log) >= 3
    /\ LastKey.code = "i"
    /\ ~LastKey.was_running
    /\ is_timer_running
    /\ elapsed_time > 0
    /\ start_time = Some(LastKey.at)

\* the step is the render step of the loop
RenderStep == pc = "loop" /\ pc' = "events"

\* C15: the header text of a frame is the MM:SS of one value of elapsed()
\* that lies between the elapsed time when the render step begins and the
\* elapsed time when it ends.
C15_HeaderFromOneReading ==
    [][RenderStep =>
         \E e \in elapsed(now)..elapsed(now)' :
             IsMinutesSeconds(header', as_secs(e))]_vars

\* C16: the render step leaves exit, is_timer_running, start_time and
\* elapsed_time unchanged; they change only in the input-handling step.
C16_RenderDoesNotMutate ==
    /\ [][RenderStep => UNCHANGED app]_vars
    /\ [][app' # app => (pc = "events" /\ pc' = "loop")]_vars

\* a frame of a running timer has been drawn and the timer still runs
C16_Witness ==
    /\ pc = "events"
    /\ since_draw = 0
    /\ header # <<>>
    /\ drawn = area
    /\ is_timer_running
    /\ start_time # None
    /\ elapsed(now) > 0

\* C17: run returns Ok only after a dispatched 'q' has set exit; exit never
\* becomes false again; once it is set no frame is rendered and no key event
\* dispatched, and the next step of the loop is the return of Ok.
C17_QuitEndsLoop ==
    /\ [](run_result = "Ok" =>
            exit /\ \E i \in 1..Len(log) : log[i].code = "q")
    /\ [][(~exit /\ exit') => Dispatches({"q"})]_vars
    /\ [][exit => exit']_vars
    /\ [][exit => /\ log' = log
                  /\ since_draw' = since_draw
                  /\ header' = header
                  /\ drawn' = drawn]_vars
    /\ [][(exit /\ pc = "loop" /\ pc' # pc)
            => (pc' = "returned" /\ run_result' = "Ok")]_vars

\* run has returned Ok after 'q' was dispatched, with no frame since
C17_Witness ==
    /\ pc = "returned"
    /\ run_result = "Ok"
    /\ exit
    /\ LastKey.code = "q"
    /\ since_draw = 1

\* C18: a pass of the loop dispatches at most one key event and renders one
\* frame: at most one key event is dispatched per frame, each dispatch comes
\* after a frame, handle_events is entered only from a frame just rendered,
\* and the loop, unless it quits or fails, renders in every pass.
C18_OneFramePerPass ==
    /\ [](since_draw <= 1)
    /\ [][Dispatches(KeyCodes) => (pc = "events" /\ since_draw = 0)]_vars
    /\ [][(pc' = "events" /\ pc # "events")
            => (pc = "loop" /\ since_draw' = 0 /\ drawn' = area
                /\ header' # <<>>)]_vars
    /\ [][(pc = "loop" /\ ~exit /\ pc' # pc)
            => (RenderStep \/ run_result' = "Err")]_vars
    /\ [][(pc = "events" /\ pc' # pc)
            => (pc' = "loop" \/ run_result' = "Err")]_vars

\* two key events were dispatched, a pass polled no event, and the frame of
\* the next pass has been rendered
C18_Witness ==
    /\ Len(log) = 2
    /\ last_event = NoEvent
    /\ pc = "events"
    /\ since_draw = 0
    /\ header # <<>>

\* the unused space of the body band around the grid of the last frame
UnusedLeft == DrawnCell(0, 0).x - body_band(drawn).x
UnusedRight ==
    (body_band(drawn).x + body_band(drawn).width)
        - (DrawnCell(2, 0).x + DrawnCell(2, 0).width)
UnusedAbove == DrawnCell(0, 0).y - body_band(drawn).y
UnusedBelow ==
    (body_band(drawn).y + body_band(drawn).height)
        - (DrawnCell(0, 2).y + DrawnCell(0, 2).height)

Differ(a, b) == IF a >= b THEN a - b ELSE b - a

\* C19: the cells are at most 18 units per side, and when the body band is
\* wider or taller than the 3 cells need, the unused space left and right of
\* the grid is equal and the unused space above and below it is equal, up to
\* one unit.
C19_GridCentered ==
    FrameDrawn =>
        /\ \A vi \in 0..2, hi \in 0..2 :
              /\ DrawnCell(vi, hi).width <= MaxCell
              /\ DrawnCell(vi, hi).height <= MaxCell
        /\ (\/ body_band(drawn).width > 3 * MaxCell
            \/ body_band(drawn).height > 3 * MaxCell)
             => /\ Differ(UnusedLeft, UnusedRight) <= 1
                /\ Differ(UnusedAbove, UnusedBelow) <= 1

\* C20: when main returns, tui::restore has been attempted, and if an error
\* ended the loop that error is what main returns.
C20_RestoreAndPropagate ==
    main_result # "none" =>
        /\ restored # "none"
        /\ run_result = "Err" => main_result = "Err"

====
